---------------------------- MODULE Spec2Model ----------------------------
(***************************************************************************)
(* Model of src/main.rs: the Mandelbrot renderer.                          *)
(*                                                                         *)
(*   main -> render -> (pixel_to_point ; escape_time) per pixel            *)
(*        -> write_image                                                   *)
(*                                                                         *)
(* f64 is modelled as a binary floating-point format with the IEEE-754     *)
(* rules (round to nearest, ties to even, gradual underflow, overflow to   *)
(* infinity, NaN) at a reduced width: Precision significand bits, largest  *)
(* exponent ExpMax, smallest subnormal 2^-FracBits.  A finite value is     *)
(* kept as the integer  value * 2^FracBits.  The sign of zero is not kept: *)
(* the program never divides by a negative zero nor prints a zero, so no   *)
(* result depends on it.                                                   *)
(***************************************************************************)
EXTENDS Integers, Sequences, FiniteSets, TLC

-----------------------------------------------------------------------------
(* Widths of the floating-point format *)
Precision == 4
ExpMax == 4
FracBits == 5

(* Bounds on the inputs *)
MaxDim == 2
MaxLimit == 4

-----------------------------------------------------------------------------
(* f64 values *)

Fin(n) == [k |-> "fin", v |-> n]
PInf == [k |-> "inf", v |-> 1]
NInf == [k |-> "inf", v |-> -1]
NaN == [k |-> "nan", v |-> 0]

Abs(n) == IF n < 0 THEN -n ELSE n
Sgn(n) == IF n < 0 THEN -1 ELSE IF n > 0 THEN 1 ELSE 0

\* The largest shift of a significand: the unit in the last place of the
\* top binade is 2^TopShift (in units of 2^-FracBits).
TopShift == ExpMax - Precision + 1 + FracBits
\* The largest finite value, in units of 2^-FracBits.
MaxScaled == (2^Precision - 1) * 2^TopShift

\* The unit in the last place at magnitude f (an integer number of units).
Ulp(f) ==
    LET e == CHOOSE e \in 0..(TopShift + 1) :
                 /\ (e = TopShift + 1 \/ f < 2^(Precision + e))
                 /\ (e = 0 \/ f >= 2^(Precision + e - 1))
    IN  2^e

\* The rational n/d (d > 0), n >= 0, rounded to nearest, ties to even;
\* the result is a number of units, 2^(Precision + TopShift) standing for
\* "beyond the largest finite value".
RoundMag(n, d) ==
    IF n \div d >= 2^(Precision + TopShift) THEN 2^(Precision + TopShift)
    ELSE CHOOSE m \in
             { LET lo == ((n \div d) \div u) * u
                   r2 == 2 * (n - lo * d)
               IN  IF r2 < u * d THEN lo
                   ELSE IF r2 > u * d THEN lo + u
                   ELSE IF (lo \div u) % 2 = 0 THEN lo ELSE lo + u
               : u \in {Ulp(n \div d)} } : TRUE

\* The f64 nearest the rational n/d (d > 0).
Round(n, d) ==
    CHOOSE r \in
        { IF m > MaxScaled THEN (IF n < 0 THEN NInf ELSE PInf)
          ELSE Fin(Sgn(n) * m)
          : m \in {RoundMag(Abs(n), d)} } : TRUE

IsNaN(a) == a.k = "nan"
IsFinite(a) == a.k = "fin"

\* The operations take their operands by value: x and y below are the
\* operands a and b, evaluated once.

\* -a
FNeg(a) ==
    CHOOSE r \in
        { IF x.k = "nan" THEN NaN ELSE [k |-> x.k, v |-> -x.v]
          : x \in {a} } : TRUE

\* a + b
FAdd(a, b) ==
    CHOOSE r \in
        { IF x.k = "nan" \/ y.k = "nan" THEN NaN
          ELSE IF x.k = "inf" /\ y.k = "inf" THEN (IF x.v = y.v THEN x ELSE NaN)
          ELSE IF x.k = "inf" THEN x
          ELSE IF y.k = "inf" THEN y
          ELSE Round(x.v + y.v, 1)
          : x \in {a}, y \in {b} } : TRUE

\* a - b
FSub(a, b) == FAdd(a, FNeg(b))

\* a * b
FMul(a, b) ==
    CHOOSE r \in
        { IF x.k = "nan" \/ y.k = "nan" THEN NaN
          ELSE IF x.k = "inf" \/ y.k = "inf"
               THEN (IF x.v = 0 \/ y.v = 0 THEN NaN
                     ELSE IF Sgn(x.v) = Sgn(y.v) THEN PInf ELSE NInf)
          ELSE Round(x.v * y.v, 2^FracBits)
          : x \in {a}, y \in {b} } : TRUE

\* a / b
FDiv(a, b) ==
    CHOOSE r \in
        { IF x.k = "nan" \/ y.k = "nan" THEN NaN
          ELSE IF x.k = "inf"
               THEN (IF y.k = "inf" THEN NaN
                     ELSE IF x.v * (IF y.v < 0 THEN -1 ELSE 1) > 0 THEN PInf
                     ELSE NInf)
          ELSE IF y.k = "inf" THEN Fin(0)
          ELSE IF y.v = 0
               THEN (IF x.v = 0 THEN NaN ELSE IF x.v > 0 THEN PInf ELSE NInf)
          ELSE Round(Sgn(y.v) * x.v * 2^FracBits, Abs(y.v))
          : x \in {a}, y \in {b} } : TRUE

\* a < b
FLt(a, b) ==
    \E x \in {a}, y \in {b} :
        /\ x.k # "nan"
        /\ y.k # "nan"
        /\ IF x.k = "inf" THEN x.v < 0 /\ y # NInf
           ELSE IF y.k = "inf" THEN y.v > 0
           ELSE x.v < y.v

\* a == b
FEq(a, b) == \E x \in {a}, y \in {b} : x.k # "nan" /\ y.k # "nan" /\ x = y

\* a >= b
FGe(a, b) == \E x \in {a}, y \in {b} : FLt(y, x) \/ FEq(x, y)

\* n as f64, n an unsigned integer
FromInt(n) == Round(n * 2^FracBits, 1)

-----------------------------------------------------------------------------
(* Complex<f64> *)

Complex(re, im) == [re |-> re, im |-> im]

\* a * b
CMul(a, b) ==
    CHOOSE r \in
        { Complex(FSub(FMul(x.re, y.re), FMul(x.im, y.im)),
                  FAdd(FMul(x.re, y.im), FMul(x.im, y.re)))
          : x \in {a}, y \in {b} } : TRUE

\* a + b
CAdd(a, b) ==
    CHOOSE r \in
        { Complex(FAdd(x.re, y.re), FAdd(x.im, y.im))
          : x \in {a}, y \in {b} } : TRUE

\* z.re * z.re + z.im * z.im
norm_sqr(z) ==
    CHOOSE r \in {FAdd(FMul(x.re, x.re), FMul(x.im, x.im)) : x \in {z}} : TRUE

-----------------------------------------------------------------------------
(* Option<u32> *)

None == <<>>
Some(x) == <<x>>
IsSome(r) == Len(r) = 1

-----------------------------------------------------------------------------
(* escape_time and is_in_range *)

Zero == Complex(Fin(0), Fin(0))
Four == FromInt(4)

\* The test |z|^2 <= 4.0.
is_in_range_le(zz, cc) ==
    CHOOSE r \in
        { [z |-> z2, keep |-> FLt(norm_sqr(z2), Four) \/ FEq(norm_sqr(z2), Four)]
          : z2 \in {CAdd(CMul(zz, zz), cc)} } : TRUE

\* The test inverted: in range when |z|^2 >= 4.0.
is_in_range_inverted(zz, cc) ==
    CHOOSE r \in
        { [z |-> z2, keep |-> FGe(norm_sqr(z2), Four)]
          : z2 \in {CAdd(CMul(zz, zz), cc)} } : TRUE

\* One call of the closure is_in_range(c) returns, the closure holding z:
\* the updated z and the closure's answer.
is_in_range(zz, cc) ==
    CHOOSE r \in
        { [z |-> z2, keep |-> FLt(norm_sqr(z2), Four)]
          : z2 \in {CAdd(CMul(zz, zz), cc)} } : TRUE

\* SkipWhile over the range 0..limit with the closure is_in_range(c): the
\* next element i of the range, the closure's z, and the element the
\* predicate rejected (None while every element so far was skipped).
SkipWhile(i, z, found) == [i |-> i, z |-> z, found |-> found]

\* The rejected element counted from 1.
skip_one_from_1(st, cc) ==
    CHOOSE out \in
        { SkipWhile(st.i + 1, r.z, IF r.keep THEN None ELSE Some(st.i + 1))
          : r \in {is_in_range(st.z, cc)} } : TRUE

\* The predicate applied to the next element of the range.
skip_one(st, cc) ==
    CHOOSE out \in
        { SkipWhile(st.i + 1, r.z, IF r.keep THEN None ELSE Some(st.i))
          : r \in {is_in_range(st.z, cc)} } : TRUE

\* SkipWhile::next over the elements of the range below hi: it stops at the
\* first element the predicate rejects.  (The elements are taken as two runs,
\* the second from the state the first one left.)
RECURSIVE skip_while(_, _, _)
skip_while(st, cc, hi) ==
    IF st.i >= hi \/ IsSome(st.found) THEN st
    ELSE IF st.i + 1 = hi THEN skip_one(st, cc)
    ELSE CHOOSE out \in {skip_while(mid, cc, hi) :
                            mid \in {skip_while(st, cc, (st.i + hi) \div 2)}} : TRUE

\* (0..limit).skip_while(is_in_range(c)).take(1).last()
escape_time(cc, lim) == skip_while(SkipWhile(0, Zero, None), cc, lim).found

-----------------------------------------------------------------------------
(* pixel_to_point *)

Corner(upper_left, lower_right) ==
    [upper_left |-> upper_left, lower_right |-> lower_right]

\* The pixel's far edge instead of its near edge.
pixel_to_point_far_edge(bnds, crn, px) ==
    LET width  == FSub(crn.lower_right.re, crn.upper_left.re)
        height == FSub(crn.upper_left.im, crn.lower_right.im)
        re == FAdd(crn.upper_left.re,
                   FDiv(FMul(FromInt(px[1] + 1), width), FromInt(bnds[1])))
        im == FSub(crn.upper_left.im,
                   FDiv(FMul(FromInt(px[2] + 1), height), FromInt(bnds[2])))
    IN  Complex(re, im)

\* The imaginary axis not inverted.
pixel_to_point_upward(bnds, crn, px) ==
    LET width  == FSub(crn.lower_right.re, crn.upper_left.re)
        height == FSub(crn.upper_left.im, crn.lower_right.im)
        re == FAdd(crn.upper_left.re,
                   FDiv(FMul(FromInt(px[1]), width), FromInt(bnds[1])))
        im == FAdd(crn.upper_left.im,
                   FDiv(FMul(FromInt(px[2]), height), FromInt(bnds[2])))
    IN  Complex(re, im)

pixel_to_point(bnds, crn, px) ==
    LET width  == FSub(crn.lower_right.re, crn.upper_left.re)
        height == FSub(crn.upper_left.im, crn.lower_right.im)
        re == FAdd(crn.upper_left.re,
                   FDiv(FMul(FromInt(px[1]), width), FromInt(bnds[1])))
        im == FSub(crn.upper_left.im,
                   FDiv(FMul(FromInt(px[2]), height), FromInt(bnds[2])))
    IN  Complex(re, im)

-----------------------------------------------------------------------------
(* render *)

\* A limit one too large for a byte.
limit_256 == 255 + 1

\* let limit = 255_u32
limit == 255

\* (0..height).flat_map(|row| (0..width).map(move |column| (column, row))),
\* from row on: the pixels it yields, in order.
\* The pixels with their coordinates swapped: (row, column).
RECURSIVE pixel_iter_swapped(_, _, _)
pixel_iter_swapped(row, width, height) ==
    IF row >= height THEN <<>>
    ELSE [column \in 1..width |-> <<row, column - 1>>]
             \o pixel_iter_swapped(row + 1, width, height)

RECURSIVE pixel_iter(_, _, _)
pixel_iter(row, width, height) ==
    IF row >= height THEN <<>>
    ELSE [column \in 1..width |-> <<column - 1, row>>]
             \o pixel_iter(row + 1, width, height)

\* map_or(0, |count| (limit - count) as u8): the u32 difference wraps modulo
\* 2^32 and the cast keeps its low 8 bits, which is the difference modulo 256.
intensity(r, lim) == IF IsSome(r) THEN (lim - r[1]) % 256 ELSE 0

\* vec![0; len]
zeros(len) == [i \in 1..len |-> 0]

\* A column-major index.
slot_column_major(column, row, width) == column * width + row

\* row * width + column
slot(column, row, width) == row * width + column

-----------------------------------------------------------------------------
(* Inputs *)

\* The decimal n/d as the nearest f64 (f64::from_str rounds to nearest).
Dec(n, d) == Round(n * 2^FracBits, d)
Pt(re, im, d) == Complex(Dec(re, d), Dec(im, d))
MaxF64 == Fin(MaxScaled)

Dims == 0..MaxDim

\* Plane regions: the usage example, the whole set, a window inside the set,
\* a window far outside it, a degenerate one, one whose width overflows and
\* one with an infinite corner.
Corners ==
    { Corner(Pt(-120, 35, 100), Pt(-100, 20, 100)),
      Corner(Pt(-2, 1, 1), Pt(1, -1, 1)),
      Corner(Pt(-1, 1, 2), Pt(1, -1, 2)),
      Corner(Pt(3, 5, 1), Pt(5, 3, 1)),
      Corner(Pt(0, 0, 1), Pt(0, 0, 1)),
      Corner(Complex(FNeg(MaxF64), MaxF64), Complex(MaxF64, FNeg(MaxF64))),
      Corner(Pt(0, 0, 1), Complex(PInf, Dec(-1, 1))) }

\* What a buffer handed to render may hold before the pass (main hands it
\* zeros).
Fills == {77}
Buffers == {[i \in 1..len |-> fill] : len \in 0..(MaxDim * MaxDim + 1), fill \in Fills}

-----------------------------------------------------------------------------
(* State *)

VARIABLES
    pc,         \* where the program is
    caller,     \* who called render: "main" or another caller
    bounds,     \* (width, height)
    corner,     \* Corner { upper_left, lower_right }
    pixels,     \* the pixel buffer
    before,     \* the buffer as it was when render was entered
    iter,       \* what pixel_iter has still to yield
    writes,     \* the indices written so far, in order
    point,      \* the point of the last pixel mapped
    count,      \* the last result of escape_time
    pixel,      \* pixel_to_point's argument
    c,          \* escape_time's argument
    et_limit,   \* escape_time's limit
    z,          \* the z held by the closure is_in_range returned
    range,      \* the next element of 0..limit
    take_n,     \* what Take has still to yield
    last,       \* the accumulator of last()
    orbit       \* the values z took, one per call of the closure

render_vars == <<caller, bounds, corner, pixels, before, iter, writes, count>>
escape_vars == <<c, et_limit, z, range, take_n, last, orbit>>
vars == <<pc, caller, bounds, corner, pixels, before, iter, writes, point,
          count, pixel, c, et_limit, z, range, take_n, last, orbit>>

EscapeIdle ==
    /\ c = Zero /\ et_limit = 0 /\ z = Zero /\ range = 0
    /\ take_n = 0 /\ last = None /\ orbit = <<>>

RenderIdle ==
    /\ caller = "none" /\ pixels = <<>> /\ before = <<>> /\ iter = <<>>
    /\ writes = <<>> /\ count = None

-----------------------------------------------------------------------------
(* The program: main, render, write_image *)

\* main with its arguments parsed
InitMain ==
    /\ pc = "main"
    /\ caller = "main"
    /\ bounds \in Dims \X Dims
    /\ corner \in Corners
    /\ pixels = <<>> /\ before = <<>> /\ iter = <<>> /\ writes = <<>>
    /\ point = Zero /\ count = None /\ pixel = <<0, 0>>
    /\ EscapeIdle

\* render entered by any caller, with any buffer
InitRender ==
    /\ pc = "render"
    /\ caller = "other"
    /\ bounds \in Dims \X Dims
    /\ corner \in Corners
    /\ pixels \in Buffers /\ before = pixels
    /\ iter = <<>> /\ writes = <<>>
    /\ point = Zero /\ count = None /\ pixel = <<0, 0>>
    /\ EscapeIdle

\* let mut pixels = vec![0; width * height]; render(&mut pixels, bounds, ..)
main ==
    /\ pc = "main"
    /\ pixels' = zeros(bounds[1] * bounds[2])
    /\ before' = pixels'
    /\ pc' = "render"
    /\ UNCHANGED <<caller, bounds, corner, iter, writes, point, count, pixel>>
    /\ UNCHANGED escape_vars

\* The assertion pixels.len() >= width * height.
render_assert_at_least ==
    /\ pc = "render"
    /\ IF Len(pixels) >= bounds[1] * bounds[2]
       THEN /\ pc' = "for_each"
            /\ iter' = pixel_iter(0, bounds[1], bounds[2])
       ELSE /\ pc' = "panic"
            /\ iter' = iter
    /\ UNCHANGED <<caller, bounds, corner, pixels, before, writes, point, count, pixel>>
    /\ UNCHANGED escape_vars

\* assert!(pixels.len() == width * height), then pixel_iter is built
render_assert ==
    /\ pc = "render"
    /\ IF Len(pixels) = bounds[1] * bounds[2]
       THEN /\ pc' = "for_each"
            /\ iter' = pixel_iter(0, bounds[1], bounds[2])
       ELSE /\ pc' = "panic"
            /\ iter' = iter
    /\ UNCHANGED <<caller, bounds, corner, pixels, before, writes, point, count, pixel>>
    /\ UNCHANGED escape_vars

\* one call of the closure given to for_each
render_pixel ==
    /\ pc = "for_each"
    /\ iter # <<>>
    /\ \E p \in {pixel_to_point(bounds, corner, Head(iter))} :
       \E r \in {escape_time(p, limit)} :
       LET column == Head(iter)[1]
           row    == Head(iter)[2]
           index  == slot(column, row, bounds[1])
       IN  /\ iter' = Tail(iter)
           /\ point' = p
           /\ count' = r
           /\ IF index < Len(pixels)
              THEN /\ pixels' = [pixels EXCEPT ![index + 1] = intensity(r, limit)]
                   /\ writes' = Append(writes, index)
                   /\ pc' = pc
              ELSE /\ pc' = "panic"
                   /\ UNCHANGED <<pixels, writes>>
    /\ UNCHANGED <<caller, bounds, corner, before, pixel>>
    /\ UNCHANGED escape_vars

\* pixel_iter is exhausted: for_each and render return
render_return ==
    /\ pc = "for_each"
    /\ iter = <<>>
    /\ pc' = "returned"
    /\ UNCHANGED <<caller, bounds, corner, pixels, before, iter, writes, point, count, pixel>>
    /\ UNCHANGED escape_vars

\* write_image(&args[1], &pixels, bounds)
write_image ==
    /\ pc = "returned"
    /\ caller = "main"
    /\ pc' = "exit"
    /\ UNCHANGED <<caller, bounds, corner, pixels, before, iter, writes, point, count, pixel>>
    /\ UNCHANGED escape_vars

Init == InitMain \/ InitRender

Next == main \/ render_assert \/ render_pixel \/ render_return \/ write_image

Spec == Init /\ [][Next]_vars

\* The program runs on: no step of it waits for anything.
FairSpec == Spec /\ WF_vars(Next)

-----------------------------------------------------------------------------
(* escape_time, one call of the closure at a time *)

\* The points escape_time is called with: a grid over the square the set
\* lies in, the points the spec names, and the values f64 has beyond it.
Halves == {Dec(n, 2) : n \in -4..4}
Points ==
    {Complex(re, im) : re \in Halves, im \in Halves}
        \cup { Pt(3, 0, 1), Pt(-120, 35, 100), Pt(1, 1, 4), Pt(-3, 1, 4),
               Complex(MaxF64, Fin(0)), Complex(Fin(1), FNeg(MaxF64)),
               Complex(PInf, Fin(0)), Complex(Fin(0), NInf),
               Complex(NaN, Fin(0)), Complex(Fin(0), NaN) }

Limits == 0..MaxLimit \cup {limit}

\* escape_time(c, limit) entered: the iterators are built, last() is running
InitEscape ==
    /\ pc = "last"
    /\ c \in Points
    /\ et_limit \in Limits
    /\ z = Zero
    /\ range = 0
    /\ take_n = 1
    /\ last = None
    /\ orbit = <<>>
    /\ bounds = <<0, 0>> /\ corner = Corner(Zero, Zero)
    /\ point = Zero /\ pixel = <<0, 0>>
    /\ RenderIdle

\* last() asks Take for an element, Take asks SkipWhile
take_next ==
    /\ pc = "last"
    /\ take_n > 0
    /\ take_n' = take_n - 1
    /\ pc' = "skip_while"
    /\ UNCHANGED <<c, et_limit, z, range, last, orbit>>
    /\ UNCHANGED <<bounds, corner, point, pixel>>
    /\ UNCHANGED render_vars

\* SkipWhile takes the next element of the range and asks the closure
skip_while_next ==
    /\ pc = "skip_while"
    /\ range < et_limit
    /\ \E st \in {skip_one(SkipWhile(range, z, None), c)} :
           /\ z' = st.z
           /\ range' = st.i
           /\ orbit' = Append(orbit, st.z)
           /\ IF IsSome(st.found)
              THEN last' = st.found /\ pc' = "last"
              ELSE last' = last /\ pc' = pc
    /\ UNCHANGED <<c, et_limit, take_n>>
    /\ UNCHANGED <<bounds, corner, point, pixel>>
    /\ UNCHANGED render_vars

\* the range is exhausted: SkipWhile, Take and last() return
range_end ==
    /\ pc = "skip_while"
    /\ range >= et_limit
    /\ pc' = "done"
    /\ UNCHANGED escape_vars
    /\ UNCHANGED <<bounds, corner, point, pixel>>
    /\ UNCHANGED render_vars

\* Take has yielded its one element: it returns None without asking
\* SkipWhile again, and last() returns
take_end ==
    /\ pc = "last"
    /\ take_n = 0
    /\ pc' = "done"
    /\ UNCHANGED escape_vars
    /\ UNCHANGED <<bounds, corner, point, pixel>>
    /\ UNCHANGED render_vars

NextEscape == take_next \/ skip_while_next \/ range_end \/ take_end

SpecEscape == InitEscape /\ [][NextEscape]_vars

-----------------------------------------------------------------------------
(* pixel_to_point, called as render calls it *)

\* Corner coordinates: values around the set, two neighbours in the top
\* binade (their difference is one unit in the last place), the smallest
\* subnormal and the largest finite value, of either sign.
Coords ==
    { Dec(-2, 1), Dec(-5, 4), Fin(0), Fin(1), Dec(1, 2),
      Fin(2^(Precision + TopShift - 1)), Fin(2^(Precision + TopShift - 1) + 2^TopShift),
      FNeg(MaxF64), MaxF64 }

InitMap ==
    /\ pc = "pixel_to_point"
    /\ bounds \in (1..MaxDim) \X (1..MaxDim)
    /\ pixel \in (0..(MaxDim - 1)) \X (0..(MaxDim - 1))
    /\ pixel[1] < bounds[1] /\ pixel[2] < bounds[2]
    /\ corner \in {Corner(Complex(a, b), Complex(d, e)) :
                       a \in Coords, b \in Coords, d \in Coords, e \in Coords}
    /\ point = Zero
    /\ RenderIdle
    /\ EscapeIdle

map_pixel ==
    /\ pc = "pixel_to_point"
    /\ point' = pixel_to_point(bounds, corner, pixel)
    /\ pc' = "mapped"
    /\ UNCHANGED <<bounds, corner, pixel>>
    /\ UNCHANGED render_vars
    /\ UNCHANGED escape_vars

NextMap == map_pixel

SpecMap == InitMap /\ [][NextMap]_vars

-----------------------------------------------------------------------------
(* Properties of render *)

InRender == pc \in {"for_each", "returned", "exit"}
Returned == pc \in {"returned", "exit"}

\* The intensity the spec gives the pixel (column, row): 255 - count if its
\* point escaped at count, 0 if it never escaped.
Expected(column, row) ==
    CHOOSE byte \in
        { IF IsSome(r) THEN 255 - r[1] ELSE 0
          : r \in { escape_time(p, 255)
                    : p \in {pixel_to_point(bounds, corner, <<column, row>>)} } }
        : TRUE

\* C1: when render returns, every slot row * width + column holds the
\* intensity of the pixel (column, row): 255 - count if its point escaped at
\* count, 0 if it never escaped, whatever the slot held before.
C1_RenderWritesEveryPixel ==
    Returned =>
        /\ Len(pixels) = bounds[1] * bounds[2]
        /\ \A column \in 0..(bounds[1] - 1) : \A row \in 0..(bounds[2] - 1) :
               pixels[row * bounds[1] + column + 1] = Expected(column, row)

\* render has returned on a 2 x 2 image whose buffer held 77 everywhere,
\* with a pixel that escaped and one that never did.
C1_Witness ==
    /\ pc = "returned"
    /\ caller = "other"
    /\ bounds = <<2, 2>>
    /\ \A i \in 1..4 : before[i] = 77 /\ pixels[i] # 77
    /\ \E i, j \in 1..4 : pixels[i] = 0 /\ pixels[j] > 0

\* C8: render entered with a buffer whose length differs from
\* width * height panics at its assertion with no slot written and the buffer
\* as it was; with a buffer of that length the assertion passes; the buffer
\* main allocates is width * height zero bytes and passes it.
C8_AssertionOnLength ==
    /\ pc = "panic" => /\ Len(before) # bounds[1] * bounds[2]
                       /\ pixels = before
                       /\ writes = <<>>
    /\ (pc # "main" /\ pc # "render" /\ Len(before) # bounds[1] * bounds[2])
           => pc = "panic"
    /\ Len(before) = bounds[1] * bounds[2] => pc # "panic"
    /\ (caller = "main" /\ pc # "main")
           => /\ before = zeros(bounds[1] * bounds[2])
              /\ pc # "panic"

\* render has panicked on a buffer one slot too long, which it left alone.
C8_Witness ==
    /\ pc = "panic"
    /\ bounds = <<2, 2>>
    /\ Len(before) = 5
    /\ pixels = [i \in 1..5 |-> 77]

\* The pixel written n-th, n counted from 0.
NthPixel(n) == <<n % bounds[1], n \div bounds[1]>>

C9_Order ==
    InRender =>
        /\ \A n \in 1..Len(writes) : writes[n] = n - 1
        /\ Len(writes) <= bounds[1] * bounds[2]
        /\ writes # <<>> =>
               LET px == NthPixel(Len(writes) - 1)
               IN  pixels[Len(writes)] = Expected(px[1], px[2])
        /\ \A i \in 1..Len(pixels) : i > Len(writes) => pixels[i] = before[i]
        /\ iter # <<>> => Head(iter) = NthPixel(Len(writes))
        /\ Returned <=> (Len(writes) = bounds[1] * bounds[2] /\ iter = <<>> /\ pc # "for_each")

\* A step of the pass writes one more slot and leaves every other slot alone.
C9_Step ==
    (pc = "for_each" /\ pc' = "for_each") =>
        /\ Len(writes') = Len(writes) + 1
        /\ \A i \in 1..Len(pixels) : i # Len(writes') => pixels'[i] = pixels[i]

\* C9: render writes the slots in index order, each once: the n-th write
\* goes to index n, the pixel (n mod width, n div width), and is that
\* pixel's intensity; a slot once written does not change and the slots not
\* yet written hold what they held before; render returns after exactly
\* width * height writes, and once past its assertion it always returns.
C9_RowMajorPass ==
    /\ []C9_Order
    /\ [][C9_Step]_vars
    /\ (pc = "for_each") ~> (pc = "returned")

\* render is half way through a 2 x 2 image: two slots written, two as before.
C9_Witness ==
    /\ pc = "for_each"
    /\ bounds = <<2, 2>>
    /\ writes = <<0, 1>>
    /\ before = [i \in 1..4 |-> 77]
    /\ pixels[1] # 77 /\ pixels[2] # 77 /\ pixels[3] = 77 /\ pixels[4] = 77

\* C10: a count escape_time(c, 255) returns is in 0..254, so 255 - count is
\* in 1..255 and is the byte written, unchanged by the cast; the byte written
\* is 0 exactly when the point never escaped.
C10_ByteRange ==
    (InRender /\ writes # <<>>) =>
        LET byte == pixels[writes[Len(writes)] + 1]
        IN  /\ IsSome(count) => /\ count[1] \in 0..254
                                /\ 255 - count[1] \in 1..255
                                /\ byte = 255 - count[1]
            /\ byte = 0 <=> count = None

\* render has just written a byte between 1 and 254: its pixel escaped at
\* an iteration after the first.
C10_Witness ==
    /\ InRender
    /\ writes # <<>>
    /\ \E k \in 1..254 : count = Some(k) /\ pixels[writes[Len(writes)] + 1] = 255 - k

\* The region is a proper rectangle: lower_right.re > upper_left.re and
\* upper_left.im > lower_right.im.
ValidRegion ==
    /\ FLt(corner.upper_left.re, corner.lower_right.re)
    /\ FLt(corner.lower_right.im, corner.upper_left.im)

\* plane_width and plane_height as pixel_to_point computes them.
PlaneWidth == FSub(corner.lower_right.re, corner.upper_left.re)
PlaneHeight == FSub(corner.upper_left.im, corner.lower_right.im)

\* The intensity of upper_left itself.
UpperLeftIntensity ==
    LET r == escape_time(corner.upper_left, 255)
    IN  IF IsSome(r) THEN 255 - r[1] ELSE 0

FirstPixelIsUpperLeft ==
    /\ Len(writes) = 1 => /\ FEq(point.re, corner.upper_left.re)
                          /\ FEq(point.im, corner.upper_left.im)
    /\ pixels[1] = UpperLeftIntensity

\* C5 as claimed: for every proper rectangle and non-empty image the pixel
\* (0, 0) maps to upper_left, and slot 0 holds upper_left's intensity.
C5_AnyRegion ==
    (InRender /\ writes # <<>> /\ ValidRegion) => FirstPixelIsUpperLeft

\* C5: for every proper rectangle whose plane_width and plane_height are
\* finite as computed in f64, and every non-empty image, the pixel (0, 0)
\* maps to upper_left in both components, and slot 0 holds the intensity of
\* escape_time(upper_left, 255).
C5_FirstPixelIsUpperLeft ==
    (InRender /\ writes # <<>> /\ ValidRegion
              /\ IsFinite(PlaneWidth) /\ IsFinite(PlaneHeight))
        => FirstPixelIsUpperLeft

\* render has just written slot 0 of a 2 x 2 image over a proper finite
\* rectangle whose upper_left escapes after some iterations.
C5_Witness ==
    /\ pc = "for_each"
    /\ bounds = <<2, 2>>
    /\ Len(writes) = 1
    /\ ValidRegion /\ IsFinite(PlaneWidth) /\ IsFinite(PlaneHeight)
    /\ point = corner.upper_left
    /\ pixels[1] \in 1..254

-----------------------------------------------------------------------------
(* Properties of escape_time *)

\* The j-th value of z is the one before it (0 for the first), squared, plus c.
Applied(j) ==
    LET prev == IF j = 1 THEN Zero ELSE orbit[j - 1]
    IN  orbit[j] = CAdd(CMul(prev, prev), c)

\* |z|^2 < 4.0 after the j-th update
InRangeAt(j) == FLt(norm_sqr(orbit[j]), Four)
\* |z|^2 >= 4.0 after the j-th update
EscapedAt(j) == FGe(norm_sqr(orbit[j]), Four)

EscapeRuns ==
    /\ Len(orbit) <= et_limit
    /\ Len(orbit) = range
    /\ orbit # <<>> => Applied(Len(orbit)) /\ z = orbit[Len(orbit)]
    /\ orbit = <<>> => z = Zero
    /\ (pc = "done" /\ last = None)
           => /\ Len(orbit) = et_limit
              /\ \A j \in 1..et_limit : InRangeAt(j)

\* C2 as claimed: escape_time returns "escaped at k" exactly when k is the
\* first iteration after whose update |z|^2 >= 4.0 holds.
C2_EscapeIsGe ==
    /\ EscapeRuns
    /\ IsSome(last) => /\ last[1] < et_limit
                       /\ Len(orbit) = last[1] + 1
                       /\ EscapedAt(last[1] + 1)
                       /\ \A j \in 1..last[1] : ~EscapedAt(j)

\* C2: escape_time starts from z = 0 and applies z = z*z + c once per
\* iteration; it returns "escaped at k" exactly when k < limit is the first
\* iteration after whose update |z|^2 < 4.0 does not hold (|z|^2 >= 4.0, or
\* NaN), and "never escaped" exactly when |z|^2 < 4.0 holds after each of the
\* first limit updates; the update is applied at most limit times and not
\* again after the escaping iteration.
C2_EscapeIsNotInRange ==
    /\ EscapeRuns
    /\ IsSome(last) => /\ last[1] < et_limit
                       /\ Len(orbit) = last[1] + 1
                       /\ ~InRangeAt(last[1] + 1)
                       /\ \A j \in 1..last[1] : InRangeAt(j)

\* escape_time has returned "escaped at 7" for the usage example's corner,
\* with limit 255, after eight updates.
C2_Witness ==
    /\ pc = "done"
    /\ c = Pt(-120, 35, 100)
    /\ et_limit = limit
    /\ IsSome(last) /\ last[1] > 0
    /\ Len(orbit) = last[1] + 1

Three == Complex(FromInt(3), Fin(0))

\* C3 as claimed: escape_time(3 + 0i, limit) is "escaped at 0" for every limit.
C3_AnyLimit == (pc = "done" /\ c = Three) => last = Some(0)

\* C3: escape_time(3 + 0i, limit) is "escaped at 0" for every limit > 0.
C3_ThreeEscapesAtOnce ==
    (pc = "done" /\ c = Three /\ et_limit > 0) => last = Some(0)

\* escape_time(3 + 0i, 1) has returned "escaped at 0".
C3_Witness ==
    /\ pc = "done"
    /\ c = Three
    /\ et_limit = 1
    /\ last = Some(0)
    /\ Len(orbit) = 1

\* C4: escape_time(0 + 0i, limit) is "never escaped" for every limit > 0:
\* z is 0 after every update and all limit updates are made.
C4_OriginNeverEscapes ==
    (c = Zero /\ et_limit > 0) =>
        /\ \A j \in 1..Len(orbit) : orbit[j] = Zero
        /\ last = None
        /\ pc = "done" => Len(orbit) = et_limit

\* escape_time(0 + 0i, 255) has returned "never escaped" after 255 updates.
C4_Witness ==
    /\ pc = "done"
    /\ c = Zero
    /\ et_limit = limit
    /\ last = None
    /\ Len(orbit) = 255

-----------------------------------------------------------------------------
(* Properties of pixel_to_point *)

\* No operation of one axis of pixel_to_point rounds: from, to are the
\* corner's coordinates on the axis, n the pixel's index, size the image's.
\* sign is 1 for the real axis (from + ...), -1 for the imaginary one.
AxisExact(from, to, n, size, sign) ==
    LET extent == IF sign = 1 THEN FSub(to, from) ELSE FSub(from, to)
        index  == FromInt(n)
        scaled == FMul(index, extent)
        step   == FDiv(scaled, FromInt(size))
        result == IF sign = 1 THEN FAdd(from, step) ELSE FSub(from, step)
    IN  /\ IsFinite(from) /\ IsFinite(to) /\ IsFinite(extent)
        /\ IsFinite(scaled) /\ IsFinite(step) /\ IsFinite(result)
        /\ extent.v = sign * (to.v - from.v)
        /\ index.v = n * 2^FracBits
        /\ FromInt(size).v = size * 2^FracBits
        /\ scaled.v = n * extent.v
        /\ step.v * size = scaled.v
        /\ result.v = from.v + sign * step.v

MapExact ==
    /\ AxisExact(corner.upper_left.re, corner.lower_right.re, pixel[1], bounds[1], 1)
    /\ AxisExact(corner.upper_left.im, corner.lower_right.im, pixel[2], bounds[2], -1)

\* C6: where the arithmetic of pixel_to_point is exact, the last pixel
\* (width - 1, height - 1) of a proper rectangle maps to within one pixel
\* step of lower_right:  0 <= lower_right.re - p.re <= plane_width / width
\* and 0 <= p.im - lower_right.im <= plane_height / height.
C6_LastPixelNearLowerRight ==
    (pc = "mapped" /\ ValidRegion /\ MapExact
                   /\ pixel = <<bounds[1] - 1, bounds[2] - 1>>)
        => /\ IsFinite(point.re) /\ IsFinite(point.im)
           /\ 0 <= corner.lower_right.re.v - point.re.v
           /\ (corner.lower_right.re.v - point.re.v) * bounds[1]
                  <= corner.lower_right.re.v - corner.upper_left.re.v
           /\ 0 <= point.im.v - corner.lower_right.im.v
           /\ (point.im.v - corner.lower_right.im.v) * bounds[2]
                  <= corner.upper_left.im.v - corner.lower_right.im.v

\* The last pixel of a 2 x 2 image over (-2, 0.5)..(0.5, -2) is mapped,
\* exactly, half way between the corners.
C6_Witness ==
    /\ pc = "mapped"
    /\ bounds = <<2, 2>>
    /\ pixel = <<1, 1>>
    /\ corner = Corner(Pt(-4, 1, 2), Pt(1, -4, 2))
    /\ MapExact
    /\ point = Pt(-3, -3, 4)

\* The points of the pixel to the right and of the pixel below.
Right == pixel_to_point(bounds, corner, <<pixel[1] + 1, pixel[2]>>)
Below == pixel_to_point(bounds, corner, <<pixel[1], pixel[2] + 1>>)

HasNeighbours == pixel[1] + 1 < bounds[1] /\ pixel[2] + 1 < bounds[2]

\* C7 as claimed: with plane_width > 0 and plane_height > 0, one column to
\* the right strictly increases re and keeps im, one row down strictly
\* decreases im and keeps re.
C7_StrictlyMonotone ==
    (pc = "mapped" /\ HasNeighbours
         /\ FLt(Fin(0), PlaneWidth) /\ FLt(Fin(0), PlaneHeight))
        => /\ FLt(point.re, Right.re) /\ FEq(point.im, Right.im)
           /\ FLt(Below.im, point.im) /\ FEq(point.re, Below.re)

\* C7: with plane_width > 0 and plane_height > 0, one column to the right
\* never decreases re (the step may be below the resolution of f64, and re
\* then stays) and gives the same im, one row down never increases im and
\* gives the same re.
C7_Monotone ==
    (pc = "mapped" /\ HasNeighbours
         /\ FLt(Fin(0), PlaneWidth) /\ FLt(Fin(0), PlaneHeight))
        => /\ ~FLt(Right.re, point.re) /\ point.im = Right.im
           /\ ~FLt(point.im, Below.im) /\ point.re = Below.re

\* The pixel (0, 0) of a 2 x 2 image is mapped, and the pixels to its right
\* and below it lie strictly to the right and strictly below.
C7_Witness ==
    /\ pc = "mapped"
    /\ bounds = <<2, 2>>
    /\ pixel = <<0, 0>>
    /\ corner = Corner(Pt(-4, 1, 2), Pt(1, -4, 2))
    /\ FLt(point.re, Right.re) /\ FLt(Below.im, point.im)

=============================================================================
